---- MODULE Spec2Model ----
(***************************************************************************)
(* RFID project time tracker (src/arduino.cpp).  One loop() iteration is   *)
(* one atomic step: the firmware is single threaded and loop() runs to     *)
(* completion.  The environment supplies host lines on the serial link,    *)
(* cards at the reader and the passage of time (millis()).                 *)
(*                                                                         *)
(* Behaviours start after setup() (Boot) or in one of three later states   *)
(* of the firmware (Full, Armed, Nine), each given with the scans and host *)
(* lines that lead to it from Boot; from each a bounded span of millis()   *)
(* is explored.  SpecWrap starts the same program shortly before the      *)
(* millisecond counter wraps.  lastEvent, adminSnap and sentAwaiting are   *)
(* history variables: they record what loop() and the host did and are     *)
(* read by no action; serialOut is what a deletion prints on the serial    *)
(* link.                                                                   *)
(***************************************************************************)
EXTENDS Integers, Sequences, FiniteSets, TLC

\* ---------------------------------------------------------------- bounds
MaxTime == 9000         \* ms of millis() explored after Boot and after Armed
MaxTimeFull == 5000     \* ms of millis() explored after Full
MaxTimeNine == 9000     \* ms of millis() explored after Nine
MaxTimeWrap == 5000     \* ms of millis() explored around the wrap of the counter
MaxSerial == 1          \* host lines waiting in the serial receive buffer
TickSteps == {1000}     \* ms that may pass in one idle step of the environment
Jitter == {0, 1}        \* ms that may pass from one millis() read of a handler to its last
\* unsigned long has 32 bits on the target; the counters are modelled with
\* WordBits bits, the arithmetic being the same modulo 2^WordBits
WordBits == 24

\* ------------------------------------------------------ program constants
MAX_PROJECTS == 10
Word == 2 ^ WordBits
MsgDelayLong == 3000    \* delay(3000)
MsgDelayShort == 2000   \* delay(2000)
CardDelay == 1000       \* delay(1000)
FreezeMs == 3000        \* displayFreezeUntil = millis() + 3000

Idx == 0 .. (MAX_PROJECTS - 1)

Add32(a, b) == (a + b) % Word
\* a subtraction that stops at 0
Sub32Saturating(a, b) == IF a >= b THEN a - b ELSE 0

Sub32(a, b) == (a - b + Word) % Word

\* ------------------------------------------------- UID formatting (140-145)
HexDigits == <<"0", "1", "2", "3", "4", "5", "6", "7",
               "8", "9", "a", "b", "c", "d", "e", "f">>

\* String(b, HEX): lower-case hexadecimal without leading zeros
StringHex(b) ==
    IF b < 16 THEN HexDigits[b + 1]
    ELSE HexDigits[(b \div 16) + 1] \o HexDigits[(b % 16) + 1]

RECURSIVE UidFrom(_, _)
UidFrom(bytes, i) ==
    IF i > Len(bytes) THEN ""
    ELSE (IF bytes[i] < 16 THEN "0" ELSE "")
         \o StringHex(bytes[i])
         \o (IF i < Len(bytes) THEN ":" ELSE "")
         \o UidFrom(bytes, i + 1)

UidString(bytes) == UidFrom(bytes, 1)

ADMIN_UID == "74:8a:71:16"

\* ------------------------------------------------------ cards in the world
\* (mfrc522.uid.uidByte, uid.size = 4)
AdminTag == <<116, 138, 113, 22>>
TagA == <<4, 138, 113, 22>>
TagB == <<116, 10, 113, 22>>
TagC == <<222, 173, 190, 239>>
TagD == <<1, 2, 3, 4>>
UidA == UidString(TagA)
UidB == UidString(TagB)
UidC == UidString(TagC)
UidD == UidString(TagD)
UidAdmin == UidString(AdminTag)
\* the cards of the first nine projects of a registry that fills up, and the
\* tenth and eleventh card
NineTags == <<TagA, TagB, TagC, <<5, 0, 0, 1>>, <<6, 0, 0, 1>>, <<7, 0, 0, 1>>,
              <<8, 0, 0, 255>>, <<9, 16, 32, 48>>, <<10, 11, 12, 13>>>>
TagK == <<171, 205, 239, 1>>
UidK == UidString(TagK)
\* what loop() reads from the cards in use (one of them is the admin card)
BootCards == {UidAdmin, UidA, UidB, UidC}

\* ------------------------------------------------ host lines, name.trim()
\* a line is the sequence of its characters, without the terminating '\n'
White == {" ", "\t", "\r", "\n"}

RECURSIVE TrimLeft(_)
TrimLeft(s) ==
    IF s # <<>> /\ Head(s) \in White THEN TrimLeft(Tail(s)) ELSE s

RECURSIVE TrimRight(_)
TrimRight(s) ==
    IF s # <<>> /\ s[Len(s)] \in White
    THEN TrimRight(SubSeq(s, 1, Len(s) - 1)) ELSE s

RECURSIVE Str(_)
Str(s) == IF s = <<>> THEN "" ELSE Head(s) \o Str(Tail(s))

Trim(s) == Str(TrimRight(TrimLeft(s)))

HostLines == {<<"A">>, <<" ", "B", "\r">>}

VARIABLES
    knownUIDs,               \* String knownUIDs[MAX_PROJECTS]
    projectNames,            \* String projectNames[MAX_PROJECTS]
    projectActive,           \* bool projectActive[MAX_PROJECTS]
    projectStartTime,        \* unsigned long projectStartTime[MAX_PROJECTS]
    projectAccumulatedTime,  \* unsigned long projectAccumulatedTime[MAX_PROJECTS]
    projectCount,            \* int projectCount
    pendingDeletion,         \* bool pendingDeletion
    waitingForProjectName,   \* bool waitingForProjectName
    newUID,                  \* String newUID
    uidString,               \* String uidString of the last card read (140-145)
    displayFreezeUntil,      \* unsigned long displayFreezeUntil
    lcd,                     \* the two rows of the display
    serialIn,                \* host lines received and not yet read
    clock,                   \* millis()
    cards,                   \* UIDs of the cards that can be presented to the reader
    budget,                  \* ms of the explored span that are left
    sentAwaiting,            \* for each line of serialIn: was a name awaited
                             \* when the host sent it
    serialOut,               \* hours, minutes, seconds of the line printed by
                             \* a deletion (194), <<>> once another event follows
    lastEvent,               \* what the last working loop() iteration did
    adminSnap                \* mode and registry before each of the last admin
                             \* scans (at most two) that no other event followed

registry == <<knownUIDs, projectNames, projectActive, projectStartTime,
              projectAccumulatedTime, projectCount>>
mode == <<waitingForProjectName, pendingDeletion, newUID>>
history == <<lastEvent, adminSnap>>
vars == <<knownUIDs, projectNames, projectActive, projectStartTime,
          projectAccumulatedTime, projectCount, pendingDeletion,
          waitingForProjectName, newUID, uidString, displayFreezeUntil, lcd,
          serialIn, clock, cards, budget, sentAwaiting, serialOut, lastEvent,
          adminSnap>>

\* ------------------------------------------------------------ helpers
Registered == {i \in Idx : i < projectCount}

\* a lookup that compares only the first entry
MatchesFirstOnly(uid) == {i \in {0} : i < projectCount /\ knownUIDs[i] = uid}

\* the loops at 172-173 and 227-233 stop at the first index below
\* projectCount whose UID equals uid
Matches(uid) == {i \in Registered : knownUIDs[i] = uid}
Found(uid) == Matches(uid) # {}
IndexOf(uid) == CHOOSE i \in Matches(uid) : \A k \in Matches(uid) : i <= k

\* a loop() without the branch at 171
DeleteModeNever == FALSE

\* line 171: if (pendingDeletion)
DeleteMode == pendingDeletion

\* Serial.available() while a name is awaited (99)
NameReady == waitingForProjectName /\ serialIn # <<>>

\* the millis() reads of one handler (244/256, 250, 263), in ms after the
\* first of them: 0 = t[1] <= t[2] <= t[3]
Reads == {t \in {0} \X Jitter \X Jitter : t[2] <= t[3]}

\* the subtraction with its operands swapped
ElapsedSwapped(now, start) == Sub32(start, now)

\* lines 177, 244, 256, 285: millis() - projectStartTime[i]
Elapsed(now, start) == Sub32(now, start)

\* "=" in place of "+="
CreditAssign(acc, now, start) == Elapsed(now, start)

\* lines 244, 256: projectAccumulatedTime[i] += millis() - projectStartTime[i]
Credit(acc, now, start) == Add32(acc, Elapsed(now, start))

\* lines 282-284: the first running entry
FirstActive(act, cnt) ==
    CHOOSE i \in Idx : /\ i < cnt /\ act[i]
                       /\ \A k \in Idx : k < cnt /\ act[k] => i <= k

\* total computed from the accumulated time alone
TotalPaused(act, start, acc, i, now) == acc[i]

\* lines 175-177, 285: the total of entry i read at millis() = now
TotalMs(act, start, acc, i, now) ==
    IF act[i] THEN Add32(acc[i], Elapsed(now, start[i])) ELSE acc[i]

\* lines 182-184, 194: int std, min, sek of a total in ms
FormatTotal(total) ==
    <<total \div 3600000, (total \div 60000) % 60, (total \div 1000) % 60>>

\* a deletion that stops every entry
DeactivateAll(act, i) == [k \in Idx |-> FALSE]

\* line 178: projectActive[i] = false
Deactivate(act, i) == [act EXCEPT ![i] = FALSE]

\* lines 280-313: the live display, given what the display shows (cur)
Refresh(now, freeze, names, act, cnt, wait, pend, cur) ==
    IF now > freeze
    THEN IF \E i \in Idx : i < cnt /\ act[i]
         THEN <<names[FirstActive(act, cnt)], "<time>">>
         ELSE IF ~wait /\ ~pend THEN <<"Projekt?", cur[2]>> ELSE cur
    ELSE cur

\* a shift loop that starts at j = i + 1
ShiftSkipFirst(arr, i, n) ==
    [k \in Idx |-> IF k > i /\ k < n - 1 THEN arr[k + 1] ELSE arr[k]]

\* lines 197-203: an array is shifted down onto index i
Shift(arr, i, n) ==
    [k \in Idx |-> IF k >= i /\ k < n - 1 THEN arr[k + 1] ELSE arr[k]]

\* lines 242-247: every running project is credited at millis() = now ...
StopAllAcc(acc, act, start, n, now) ==
    [k \in Idx |-> IF k < n /\ act[k]
                   THEN Credit(acc[k], now, start[k]) ELSE acc[k]]

\* a stop loop that leaves the running projects running
StopAllActNone(act, n) == act

\* ... and stopped
StopAllAct(act, n) == [k \in Idx |-> IF k < n THEN FALSE ELSE act[k]]

\* a registration that leaves the slot as it finds it
StoreNothing(arr, n, v) == arr

\* lines 105-109: arr[projectCount] = v
Store(arr, n, v) == [arr EXCEPT ![n] = v]

\* an admin check that never matches
IsAdminNever(uid) == FALSE

\* line 150
IsAdmin(uid) == uid = ADMIN_UID

\* an admin scan that arms instead of toggling
ToggleOn(p) == TRUE

\* line 151
Toggle(p) == ~p

\* a capacity test that is off by one
HasRoomOffByOne(n) == n <= MAX_PROJECTS

\* line 103
HasRoom(n) == n < MAX_PROJECTS

\* delay() and the time a handler takes: millis() advances by dt
Spend(dt) == /\ dt <= budget
             /\ budget' = budget - dt
             /\ clock' = Add32(clock, dt)

\* history: the event of this loop() iteration; an event other than an admin
\* scan ends a run of admin scans
LastTwo(q) == IF Len(q) > 2 THEN Tail(q) ELSE q

Event(kind) == /\ lastEvent' = kind
               /\ adminSnap' = <<>>
               /\ serialOut' = <<>>

\* ------------------------------------------------------------ initial state
EmptyRegistry ==
    /\ knownUIDs = [i \in Idx |-> ""]
    /\ projectNames = [i \in Idx |-> ""]
    /\ projectActive = [i \in Idx |-> FALSE]
    /\ projectStartTime = [i \in Idx |-> 0]
    /\ projectAccumulatedTime = [i \in Idx |-> 0]
    /\ projectCount = 0

\* the state after setup()
Boot ==
    /\ EmptyRegistry
    /\ pendingDeletion = FALSE
    /\ waitingForProjectName = FALSE
    /\ newUID = ""
    /\ uidString = ""
    /\ displayFreezeUntil = 0
    /\ lcd = <<"Projekt?", "">>
    /\ serialIn = <<>>
    /\ sentAwaiting = <<>>
    /\ serialOut = <<>>
    /\ clock = 0
    /\ cards = BootCards
    /\ budget = MaxTime
    /\ lastEvent = "boot"
    /\ adminSnap = <<>>

\* the registry once TagA, TagB and TagC have been registered in this order,
\* each by an unknown scan (1 s) and a host line (3 s)
ThreeUIDs ==
    [i \in Idx |-> CASE i = 0 -> UidA
                     [] i = 1 -> UidB
                     [] i = 2 -> UidC
                     [] OTHER -> ""]
ThreeNames ==
    [i \in Idx |-> CASE i = 0 -> "A" [] i = 1 -> "B" [] i = 2 -> "A"
                     [] OTHER -> ""]
ThreeMs == 3 * (CardDelay + MsgDelayLong)

\* boot, then the three registrations
Full ==
    /\ knownUIDs = ThreeUIDs
    /\ projectNames = ThreeNames
    /\ projectActive = [i \in Idx |-> FALSE]
    /\ projectStartTime = [i \in Idx |-> 0]
    /\ projectAccumulatedTime = [i \in Idx |-> 0]
    /\ projectCount = 3
    /\ pendingDeletion = FALSE
    /\ waitingForProjectName = FALSE
    /\ newUID = UidC
    /\ uidString = UidC
    /\ displayFreezeUntil = 0
    /\ lcd = <<"Projekt?", "">>
    /\ serialIn = <<>>
    /\ sentAwaiting = <<>>
    /\ serialOut = <<>>
    /\ clock = ThreeMs
    /\ cards = BootCards \cup {UidD}
    /\ budget = MaxTimeFull
    /\ lastEvent = "added"
    /\ adminSnap = <<>>

\* Full, then TagA, TagB and TagC scanned one after the other (each scan
\* starts its project and pauses the one before after 1 s), then the admin
\* card scanned
ArmedActive == [i \in Idx |-> i = 2]
ArmedStart ==
    [i \in Idx |-> CASE i = 0 -> ThreeMs
                     [] i = 1 -> ThreeMs + CardDelay
                     [] i = 2 -> ThreeMs + 2 * CardDelay
                     [] OTHER -> 0]
ArmedAcc == [i \in Idx |-> IF i < 2 THEN CardDelay ELSE 0]

Armed ==
    /\ knownUIDs = ThreeUIDs
    /\ projectNames = ThreeNames
    /\ projectActive = ArmedActive
    /\ projectStartTime = ArmedStart
    /\ projectAccumulatedTime = ArmedAcc
    /\ projectCount = 3
    /\ pendingDeletion = TRUE
    /\ waitingForProjectName = FALSE
    /\ newUID = UidC
    /\ uidString = UidAdmin
    /\ displayFreezeUntil = ThreeMs + 2 * CardDelay + FreezeMs
    /\ lcd = <<"Projekt?", "">>
    /\ serialIn = <<>>
    /\ sentAwaiting = <<>>
    /\ serialOut = <<>>
    /\ clock = ThreeMs + 3 * CardDelay + MsgDelayLong + CardDelay
    /\ cards = BootCards
    /\ budget = MaxTime
    /\ lastEvent = "admin"
    /\ adminSnap = <<[m |-> <<FALSE, FALSE, UidC>>,
                     r |-> <<ThreeUIDs, ThreeNames, ArmedActive, ArmedStart,
                             ArmedAcc, 3>>]>>

\* boot, then nine registrations
Nine ==
    /\ knownUIDs = [i \in Idx |-> IF i < 9 THEN UidString(NineTags[i + 1])
                                  ELSE ""]
    /\ projectNames = [i \in Idx |-> IF i >= 9 THEN ""
                                     ELSE IF i % 2 = 0 THEN "A" ELSE "B"]
    /\ projectActive = [i \in Idx |-> FALSE]
    /\ projectStartTime = [i \in Idx |-> 0]
    /\ projectAccumulatedTime = [i \in Idx |-> 0]
    /\ projectCount = 9
    /\ pendingDeletion = FALSE
    /\ waitingForProjectName = FALSE
    /\ newUID = UidString(NineTags[9])
    /\ uidString = UidString(NineTags[9])
    /\ displayFreezeUntil = 0
    /\ lcd = <<"Projekt?", "">>
    /\ serialIn = <<>>
    /\ sentAwaiting = <<>>
    /\ serialOut = <<>>
    /\ clock = 9 * (CardDelay + MsgDelayLong)
    /\ cards = {UidAdmin, UidD, UidK}
    /\ budget = MaxTimeNine
    /\ lastEvent = "added"
    /\ adminSnap = <<>>

Init == Boot \/ Full \/ Armed \/ Nine

\* the counter shortly before it wraps: TagA, TagB and TagC were registered
\* after boot; much later TagC was scanned at WrapStart and has been running
\* since, the live display showing its name and time
WrapStart == Word - 2 * FreezeMs
WrapClock == Word - 2 * CardDelay
WrapStarts == [i \in Idx |-> IF i = 2 THEN WrapStart ELSE 0]

WrapRunning ==
    /\ knownUIDs = ThreeUIDs
    /\ projectNames = ThreeNames
    /\ projectActive = ArmedActive
    /\ projectStartTime = WrapStarts
    /\ projectAccumulatedTime = [i \in Idx |-> 0]
    /\ projectCount = 3
    /\ pendingDeletion = FALSE
    /\ waitingForProjectName = FALSE
    /\ newUID = UidC
    /\ uidString = UidC
    /\ displayFreezeUntil = WrapStart + FreezeMs
    /\ lcd = <<"A", "<time>">>
    /\ serialIn = <<>>
    /\ sentAwaiting = <<>>
    /\ serialOut = <<>>
    /\ clock = WrapClock
    /\ cards = BootCards \cup {UidD}
    /\ budget = MaxTimeWrap
    /\ lastEvent = "started"
    /\ adminSnap = <<>>

\* the same, and the admin card was scanned once while the counter went from
\* WrapClock - 4000 to WrapClock
WrapArmed ==
    /\ knownUIDs = ThreeUIDs
    /\ projectNames = ThreeNames
    /\ projectActive = ArmedActive
    /\ projectStartTime = WrapStarts
    /\ projectAccumulatedTime = [i \in Idx |-> 0]
    /\ projectCount = 3
    /\ pendingDeletion = TRUE
    /\ waitingForProjectName = FALSE
    /\ newUID = UidC
    /\ uidString = UidAdmin
    /\ displayFreezeUntil = WrapStart + FreezeMs
    /\ lcd = <<"Projekt?", "">>
    /\ serialIn = <<>>
    /\ sentAwaiting = <<>>
    /\ serialOut = <<>>
    /\ clock = WrapClock
    /\ cards = BootCards \cup {UidD}
    /\ budget = MaxTimeWrap
    /\ lastEvent = "admin"
    /\ adminSnap = <<[m |-> <<FALSE, FALSE, UidC>>,
                     r |-> <<ThreeUIDs, ThreeNames, ArmedActive, WrapStarts,
                             [i \in Idx |-> 0], 3>>]>>

InitWrap == WrapRunning \/ WrapArmed

\* ------------------------------------------------------------ environment
HostSends ==
    /\ Len(serialIn) < MaxSerial
    /\ \E line \in HostLines : serialIn' = Append(serialIn, line)
    /\ sentAwaiting' = Append(sentAwaiting, waitingForProjectName)
    /\ UNCHANGED <<registry, mode, uidString, displayFreezeUntil, lcd, clock,
                   cards, budget, serialOut, history>>

Tick ==
    /\ \E dt \in TickSteps : Spend(dt)
    /\ UNCHANGED <<registry, mode, uidString, displayFreezeUntil, lcd,
                   serialIn, sentAwaiting, cards, serialOut, history>>

\* ------------------------------------------------------------ loop()
\* lines 99-135: a host line is read while a name is awaited
SerialInput ==
    /\ NameReady
    /\ LET name == Trim(Head(serialIn)) IN
       IF HasRoom(projectCount)
       THEN /\ knownUIDs' = Store(knownUIDs, projectCount, newUID)
            /\ projectNames' = Store(projectNames, projectCount, name)
            /\ projectActive' = Store(projectActive, projectCount, FALSE)
            /\ projectStartTime' = Store(projectStartTime, projectCount, 0)
            /\ projectAccumulatedTime' =
                   Store(projectAccumulatedTime, projectCount, 0)
            /\ projectCount' = projectCount + 1
            /\ Spend(MsgDelayLong)
            /\ Event("added")
       ELSE /\ UNCHANGED registry
            /\ Spend(MsgDelayShort)
            /\ Event("full")
    /\ serialIn' = Tail(serialIn)
    /\ sentAwaiting' = Tail(sentAwaiting)
    /\ lcd' = <<"Projekt?", "">>
    /\ waitingForProjectName' = FALSE
    /\ UNCHANGED <<pendingDeletion, newUID, uidString, displayFreezeUntil,
                   cards>>

\* lines 150-168: the admin card
AdminScan ==
    /\ ~NameReady
    /\ \E uid \in cards : IsAdmin(uid) /\ uidString' = uid
    /\ pendingDeletion' = Toggle(pendingDeletion)
    /\ lcd' = <<"Projekt?", "">>
    /\ Spend(MsgDelayLong + CardDelay)
    /\ lastEvent' = "admin"
    /\ adminSnap' = LastTwo(Append(adminSnap, [m |-> mode, r |-> registry]))
    /\ serialOut' = <<>>
    /\ UNCHANGED <<registry, waitingForProjectName, newUID,
                   displayFreezeUntil, serialIn, sentAwaiting, cards>>

\* lines 171-212: a registered card in deletion mode
DeleteScan ==
    /\ ~NameReady
    /\ DeleteMode
    /\ \E uid \in cards :
         /\ ~IsAdmin(uid)
         /\ uidString' = uid
         /\ Found(uid)
         /\ LET i == IndexOf(uid)
                total == TotalMs(projectActive, projectStartTime,
                                 projectAccumulatedTime, i, clock)
                act == Deactivate(projectActive, i)
            IN /\ serialOut' = FormatTotal(total)
               /\ knownUIDs' = Shift(knownUIDs, i, projectCount)
               /\ projectNames' = Shift(projectNames, i, projectCount)
               /\ projectActive' = Shift(act, i, projectCount)
               /\ projectStartTime' = Shift(projectStartTime, i, projectCount)
               /\ projectAccumulatedTime' =
                      Shift(projectAccumulatedTime, i, projectCount)
    /\ projectCount' = projectCount - 1
    /\ pendingDeletion' = FALSE
    /\ lcd' = <<"Projekt?", "">>
    /\ Spend(MsgDelayLong + CardDelay)
    /\ lastEvent' = "deleted"
    /\ adminSnap' = <<>>
    /\ UNCHANGED <<waitingForProjectName, newUID, displayFreezeUntil,
                   serialIn, sentAwaiting, cards>>

\* lines 171, 214-222: an unregistered card in deletion mode
DeleteMiss ==
    /\ ~NameReady
    /\ DeleteMode
    /\ \E uid \in cards :
         /\ ~IsAdmin(uid)
         /\ uidString' = uid
         /\ ~Found(uid)
    /\ pendingDeletion' = FALSE
    /\ lcd' = <<"Projekt?", "">>
    /\ Spend(MsgDelayShort + CardDelay)
    /\ Event("notfound")
    /\ UNCHANGED <<registry, waitingForProjectName, newUID,
                   displayFreezeUntil, serialIn, sentAwaiting, cards>>

\* lines 225-253, 263, 276-313: a registered, paused card outside deletion mode
StartScan ==
    /\ ~NameReady
    /\ ~DeleteMode
    /\ \E uid \in cards, t \in Reads :
         /\ ~IsAdmin(uid)
         /\ uidString' = uid
         /\ Found(uid)
         /\ ~projectActive[IndexOf(uid)]
         /\ LET index == IndexOf(uid)
                t1 == Add32(clock, t[1])
                t2 == Add32(clock, t[2])
                t3 == Add32(clock, t[3])
                act == [StopAllAct(projectActive, projectCount)
                          EXCEPT ![index] = TRUE]
                freeze == Add32(t3, FreezeMs)
            IN /\ projectAccumulatedTime' =
                      StopAllAcc(projectAccumulatedTime, projectActive,
                                 projectStartTime, projectCount, t1)
               /\ projectActive' = act
               /\ projectStartTime' = [projectStartTime EXCEPT ![index] = t2]
               /\ displayFreezeUntil' = freeze
               /\ Spend(t[3] + CardDelay)
               /\ lcd' = Refresh(Add32(t3, CardDelay), freeze, projectNames,
                                 act, projectCount, waitingForProjectName,
                                 pendingDeletion,
                                 <<projectNames[index], "Gestartet">>)
    /\ Event("started")
    /\ UNCHANGED <<knownUIDs, projectNames, projectCount, mode, serialIn, sentAwaiting,
                   cards>>

\* lines 225-238, 254-263, 276-313: a registered, running card
PauseScan ==
    /\ ~NameReady
    /\ ~DeleteMode
    /\ \E uid \in cards, t \in Reads :
         /\ ~IsAdmin(uid)
         /\ uidString' = uid
         /\ Found(uid)
         /\ projectActive[IndexOf(uid)]
         /\ t[1] = t[2]
         /\ LET index == IndexOf(uid)
                t1 == Add32(clock, t[1])
                t3 == Add32(clock, t[3])
                act == [projectActive EXCEPT ![index] = FALSE]
                freeze == Add32(t3, FreezeMs)
            IN /\ projectAccumulatedTime' =
                      [projectAccumulatedTime EXCEPT ![index] =
                          Credit(@, t1, projectStartTime[index])]
               /\ projectActive' = act
               /\ displayFreezeUntil' = freeze
               /\ Spend(t[3] + CardDelay)
               /\ lcd' = Refresh(Add32(t3, CardDelay), freeze, projectNames,
                                 act, projectCount, waitingForProjectName,
                                 pendingDeletion,
                                 <<projectNames[index], "Pausiert">>)
    /\ Event("paused")
    /\ UNCHANGED <<knownUIDs, projectNames, projectStartTime, projectCount,
                   mode, serialIn, sentAwaiting, cards>>

\* lines 225-233, 264-313: an unregistered card outside deletion mode
UnknownScan ==
    /\ ~NameReady
    /\ ~DeleteMode
    /\ \E uid \in cards :
         /\ ~IsAdmin(uid)
         /\ uidString' = uid
         /\ ~Found(uid)
         /\ newUID' = uid
    /\ waitingForProjectName' = TRUE
    /\ Spend(CardDelay)
    /\ lcd' = Refresh(Add32(clock, CardDelay), displayFreezeUntil,
                      projectNames, projectActive, projectCount, TRUE,
                      pendingDeletion,
                      <<"Unbekanntes Tag", "-> Name am PC">>)
    /\ Event("unknown")
    /\ UNCHANGED <<registry, pendingDeletion, displayFreezeUntil, serialIn, sentAwaiting,
                   cards>>

\* lines 99, 138, 280-313: no host line to read and no card at the reader
IdleLoop ==
    /\ ~NameReady
    /\ lcd' = Refresh(clock, displayFreezeUntil, projectNames, projectActive,
                      projectCount, waitingForProjectName, pendingDeletion,
                      lcd)
    /\ UNCHANGED <<registry, mode, uidString, displayFreezeUntil, serialIn, sentAwaiting,
                   clock, cards, budget, serialOut, history>>

Next ==
    \/ HostSends
    \/ Tick
    \/ SerialInput
    \/ AdminScan
    \/ DeleteScan
    \/ DeleteMiss
    \/ StartScan
    \/ PauseScan
    \/ UnknownScan
    \/ IdleLoop

Spec == Init /\ [][Next]_vars

\* the same program, started shortly before millis() wraps
SpecWrap == InitWrap /\ [][Next]_vars

\* ------------------------------------------------------------ properties
Active == {i \in Registered : projectActive[i]}
Idle == ~waitingForProjectName /\ ~pendingDeletion

\* C1: at most one registered project (index < projectCount) is active,
\* whatever scans, host lines, deletions and registrations came before.
MutualExclusion == Cardinality(Active) <= 1

\* C1 witness: a project was started while another one is registered, after a
\* deletion that left an active record in a slot beyond projectCount.
MutualExclusionWitness ==
    /\ lastEvent = "started"
    /\ Cardinality(Active) = 1
    /\ projectCount >= 2
    /\ \E k \in Idx \ Registered : projectActive[k]

\* C2: the tracker is never awaiting a project name and deletion-armed at
\* the same time.
ModeExclusive == ~(waitingForProjectName /\ pendingDeletion)

\* C3: no two registered projects have the same tagId, and while a name is
\* awaited the pending tag is one a lookup does not find.
UniqueTags ==
    /\ \A i, j \in Registered : i # j => knownUIDs[i] # knownUIDs[j]
    /\ waitingForProjectName => ~Found(newUID)

\* C3 witness: TagA, once deleted, was registered again behind another
\* project.
UniqueTagsWitness ==
    /\ lastEvent = "added"
    /\ projectCount >= 2
    /\ knownUIDs[projectCount - 1] = UidA

\* C4: no registered project has the admin id as its tagId, and the pending
\* tag is never the admin id.
AdminNeverRegistered ==
    /\ \A i \in Registered : knownUIDs[i] # ADMIN_UID
    /\ newUID # ADMIN_UID

\* C4 witness: the admin card was scanned while a name was awaited.
AdminNeverRegisteredWitness ==
    /\ lastEvent = "admin"
    /\ waitingForProjectName
    /\ newUID # ""

\* a host line is read while a name is awaited (99-100)
LineConsumed == NameReady /\ serialIn' = Tail(serialIn)

\* C5: projectCount never exceeds MAX_PROJECTS, and a host line consumed
\* while a name is awaited and the registry is full changes no registry entry
\* and not the count.
CapacityRespected ==
    [][/\ projectCount' <= MAX_PROJECTS
       /\ (LineConsumed /\ projectCount = MAX_PROJECTS) => registry' = registry
      ]_vars

\* C5 witness: a registration was rejected with ten projects registered,
\* one of them running.
CapacityWitness ==
    /\ lastEvent = "full"
    /\ projectCount = MAX_PROJECTS
    /\ Active # {}

\* C6: after a host line consumed while a name is awaited (registered or
\* rejected) and after a non-admin scan in deletion-armed mode (deleted or not
\* found) the tracker is Idle.
ReturnsToIdle ==
    lastEvent \in {"added", "full", "deleted", "notfound"} => Idle

\* C7: the total of a project that stays registered never decreases as
\* millis() advances, and when a project is paused its total right after equals
\* its total right before, both read at the millis() of the pause.
TimeConserved ==
    [][\A i \in Idx, j \in Idx :
          (i < projectCount /\ j < projectCount' /\ knownUIDs[i] = knownUIDs'[j])
          => /\ TotalMs(projectActive', projectStartTime',
                        projectAccumulatedTime', j, clock')
                >= TotalMs(projectActive, projectStartTime,
                           projectAccumulatedTime, i, clock)
             /\ (projectActive[i] /\ ~projectActive'[j])
                => TotalMs(projectActive', projectStartTime',
                           projectAccumulatedTime', j, clock)
                   = TotalMs(projectActive, projectStartTime,
                             projectAccumulatedTime, i, clock)
      ]_vars

\* C7 witness: a project was started while another one was running; the
\* other one is paused with the time of its session.
TimeConservedWitness ==
    /\ lastEvent = "started"
    /\ \E i, j \in Registered :
          /\ i # j
          /\ projectActive[j]
          /\ ~projectActive[i]
          /\ projectAccumulatedTime[i] > 0
          /\ projectStartTime[j]
                >= projectStartTime[i] + projectAccumulatedTime[i]

\* C8: accumulatedMs of a project never decreases while it stays registered.
AccumulatedMonotone ==
    [][\A i \in Idx, j \in Idx :
          (i < projectCount /\ j < projectCount' /\ knownUIDs[i] = knownUIDs'[j])
          => projectAccumulatedTime'[j] >= projectAccumulatedTime[i]
      ]_vars

\* C8 witness: the first project was deleted and the project moved to
\* index 0 kept the time it had accumulated.
AccumulatedWitness ==
    /\ lastEvent = "deleted"
    /\ knownUIDs[0] = UidB
    /\ projectAccumulatedTime[0] > 0

\* C9: a deletion takes place in deletion-armed mode, decrements
\* projectCount by exactly 1, removes the project of the scanned card and
\* leaves the tagIds of the other projects as they were and in their order.
CompactionExact ==
    [][projectCount' < projectCount
       => /\ pendingDeletion
          /\ projectCount' = projectCount - 1
          /\ Found(uidString')
          /\ \A k \in Idx : k < projectCount' =>
                /\ knownUIDs'[k] = IF k < IndexOf(uidString') THEN knownUIDs[k]
                                   ELSE knownUIDs[k + 1]
                /\ knownUIDs'[k] # uidString'
      ]_vars

\* C9 witness: of TagA, TagB, TagC the first was deleted.
CompactionWitness ==
    /\ lastEvent = "deleted"
    /\ uidString = UidA
    /\ projectCount = 2
    /\ knownUIDs[0] = UidB
    /\ knownUIDs[1] = UidC

\* C10: an admin scan flips pendingDeletion and changes nothing else of mode
\* and registry; after two admin scans in a row mode and registry are what
\* they were before the first.
AdminInvolution ==
    /\ adminSnap # <<>> =>
          LET s == adminSnap[Len(adminSnap)] IN
          /\ pendingDeletion = ~s.m[2]
          /\ waitingForProjectName = s.m[1]
          /\ newUID = s.m[3]
          /\ registry = s.r
    /\ Len(adminSnap) = 2 =>
          /\ mode = adminSnap[1].m
          /\ registry = adminSnap[1].r

\* C10 witness: two admin scans in a row while a name is awaited.
AdminInvolutionWitness ==
    /\ Len(adminSnap) = 2
    /\ waitingForProjectName

\* lines 138-147: this loop() iteration read a card
CardScan ==
    \/ AdminScan
    \/ DeleteScan
    \/ DeleteMiss
    \/ StartScan
    \/ PauseScan
    \/ UnknownScan

\* C11: a card read while a name is awaited is ignored: waitingForProjectName,
\* pendingDeletion and newUID stay as they were and the registry is unchanged,
\* be the card registered, unregistered or the admin card.
ScanIgnoredWhileAwaiting ==
    [][(waitingForProjectName /\ CardScan)
       => (mode' = mode /\ registry' = registry)
      ]_vars

\* C12: a host line sent while no name is awaited is ignored: no later
\* iteration reads it as the name of a project, also not after an unregistered
\* card has been scanned.
UnawaitedLineIgnored ==
    [][LineConsumed => Head(sentAwaiting)]_vars

\* the entry at index k
Entry(k) == <<knownUIDs[k], projectNames[k], projectActive[k],
              projectStartTime[k], projectAccumulatedTime[k]>>
EntryAfter(k) == <<knownUIDs'[k], projectNames'[k], projectActive'[k],
                   projectStartTime'[k], projectAccumulatedTime'[k]>>

\* C13 as stated: a host line consumed while a name is awaited and the
\* registry is not full appends exactly one entry at the end, with tagId = the
\* pending tag, name = the text of the host line, isActive = false and
\* accumulatedMs = 0, and leaves all earlier entries unchanged.
RegistrationRawName ==
    [][(LineConsumed /\ projectCount < MAX_PROJECTS)
       => /\ projectCount' = projectCount + 1
          /\ knownUIDs'[projectCount] = newUID
          /\ projectNames'[projectCount] = Str(Head(serialIn))
          /\ projectActive'[projectCount] = FALSE
          /\ projectAccumulatedTime'[projectCount] = 0
          /\ \A k \in Registered : EntryAfter(k) = Entry(k)
      ]_vars

\* C13 amended: as above, with name = the text of the host line without its
\* leading and trailing white space (name.trim(), 101); this also when the
\* slot holds the copy of a running entry that a deletion left behind.
RegistrationResult ==
    [][(LineConsumed /\ projectCount < MAX_PROJECTS)
       => /\ projectCount' = projectCount + 1
          /\ knownUIDs'[projectCount] = newUID
          /\ projectNames'[projectCount] = Trim(Head(serialIn))
          /\ projectActive'[projectCount] = FALSE
          /\ projectAccumulatedTime'[projectCount] = 0
          /\ \A k \in Registered : EntryAfter(k) = Entry(k)
      ]_vars

\* C13 witness: TagA was deleted while TagC was running, which left the copy
\* of the running entry at index 2, and was then registered again at index 2
\* from the host line " B\r".
RegistrationWitness ==
    /\ lastEvent = "added"
    /\ projectCount = 3
    /\ knownUIDs[0] = UidB /\ knownUIDs[1] = UidC /\ knownUIDs[2] = UidA
    /\ projectActive[1]
    /\ ~projectActive[2]
    /\ projectNames[2] = "B"

\* C14: in Idle, a registered paused card scanned at time now pauses the
\* running project (if any) by adding exactly now - its projectStartTime to its
\* projectAccumulatedTime, starts the scanned project with projectStartTime =
\* now and its accumulated time unchanged, and changes no other project; a
\* registered running card scanned at time now adds exactly now -
\* projectStartTime to its accumulated time, stops it and changes no other
\* project.  now is one value of millis() during the handler.
SwitchExact ==
    [][(Idle /\ (StartScan \/ PauseScan))
       => LET i == IndexOf(uidString') IN
          /\ knownUIDs' = knownUIDs
          /\ projectNames' = projectNames
          /\ projectCount' = projectCount
          /\ \E now \in {Add32(clock, j) : j \in Jitter} :
                IF projectActive[i]
                THEN /\ EntryAfter(i) =
                          <<knownUIDs[i], projectNames[i], FALSE,
                            projectStartTime[i],
                            Add32(projectAccumulatedTime[i],
                                  Sub32(now, projectStartTime[i]))>>
                     /\ \A k \in Registered \ {i} : EntryAfter(k) = Entry(k)
                ELSE /\ EntryAfter(i) =
                          <<knownUIDs[i], projectNames[i], TRUE, now,
                            projectAccumulatedTime[i]>>
                     /\ \A k \in Registered \ {i} :
                           EntryAfter(k) =
                             IF projectActive[k]
                             THEN <<knownUIDs[k], projectNames[k], FALSE,
                                    projectStartTime[k],
                                    Add32(projectAccumulatedTime[k],
                                          Sub32(now, projectStartTime[k]))>>
                             ELSE Entry(k)
      ]_vars

\* C15: when a registered card is scanned in deletion mode at millis() = now,
\* the total printed for the deleted project (as hours, minutes, seconds) is
\* that of projectAccumulatedTime + (now - projectStartTime) if the project was
\* running and of projectAccumulatedTime if it was paused; after the deletion
\* a registered project is running only if a project other than the deleted
\* one was running before.
DeletionTotal ==
    [][DeleteScan
       => LET i == IndexOf(uidString') IN
          /\ serialOut' =
                FormatTotal(IF projectActive[i]
                            THEN Add32(projectAccumulatedTime[i],
                                       Sub32(clock, projectStartTime[i]))
                            ELSE projectAccumulatedTime[i])
          /\ (\E k \in Idx : k < projectCount' /\ projectActive'[k])
                => \E j \in Registered \ {i} : projectActive[j]
      ]_vars

\* C15 witness: TagC, running for 5 s, was deleted: 0h 0m 5s are printed
\* and no project is running.
DeletionTotalWitness ==
    /\ lastEvent = "deleted"
    /\ uidString = UidC
    /\ serialOut = <<0, 0, 5>>
    /\ projectCount = 2
    /\ Active = {}

\* C16: in deletion mode the scan of a card other than the admin card never
\* toggles or registers: a registered card is deleted (it is registered no
\* longer, the count drops by one) and no project is started or paused; an
\* unregistered card leaves the registry unchanged; in both cases
\* waitingForProjectName and newUID stay as they were.
ArmedScanDeletes ==
    [][(pendingDeletion /\ CardScan /\ uidString' # ADMIN_UID)
       => /\ waitingForProjectName' = waitingForProjectName
          /\ newUID' = newUID
          /\ IF Found(uidString')
             THEN /\ projectCount' = projectCount - 1
                  /\ \A k \in Idx : k < projectCount' =>
                        /\ knownUIDs'[k] # uidString'
                        /\ projectActive'[k] =
                              IF k < IndexOf(uidString') THEN projectActive[k]
                              ELSE projectActive[k + 1]
             ELSE registry' = registry
      ]_vars

\* C16 witness: with nine projects registered and deletion mode on, the
\* unregistered card TagD was scanned: nothing is registered and no name is
\* awaited.
ArmedScanWitness ==
    /\ lastEvent = "notfound"
    /\ uidString = UidD
    /\ projectCount = 9
    /\ ~waitingForProjectName
    /\ newUID # UidD

\* C17: every iteration that shows a confirmation (project added, registry
\* full, admin scan, project deleted, not found, started, paused, unknown
\* card) sets displayFreezeUntil to now + 3000 for a value now of millis()
\* during the iteration, and the display does not show the live timer at the
\* end of the iteration.
FreezeOnConfirmation ==
    [][(SerialInput \/ CardScan)
       => /\ \E d \in 0 .. Sub32(clock', clock) :
                displayFreezeUntil' = Add32(Add32(clock, d), FreezeMs)
          /\ lcd'[2] # "<time>"
      ]_vars

\* C18: an iteration does one unit of work: a card is read only in an
\* iteration that read no host line, and the live display (280-313) writes
\* only in an iteration that read neither a host line nor a card.
OneUnitOfWork ==
    [][/\ CardScan => ~NameReady
       /\ (SerialInput \/ CardScan) =>
             lcd' \in {<<"Projekt?", "">>,
                       <<"Unbekanntes Tag", "-> Name am PC">>}
                      \cup {<<projectNames[i], r>> :
                               i \in Registered,
                               r \in {"Gestartet", "Pausiert"}}
      ]_vars

\* C19: a deletion moves the other entries intact: every project other than
\* the deleted one has the same UID, name, running flag, start time and
\* accumulated time after the deletion as before (one index lower if it stood
\* behind the deleted one); and in every step a project that stays registered
\* keeps its name.
RecordsIntact ==
    [][/\ DeleteScan =>
             LET i == IndexOf(uidString') IN
             \A k \in Registered \ {i} :
                 EntryAfter(IF k < i THEN k ELSE k - 1) = Entry(k)
       /\ \A i \in Idx, j \in Idx :
             (i < projectCount /\ j < projectCount'
                /\ knownUIDs[i] = knownUIDs'[j])
             => projectNames'[j] = projectNames[i]
      ]_vars

\* C19 witness: TagA was deleted while TagC was running; TagC, now at
\* index 1, is still running with the start time it had.
RecordsIntactWitness ==
    /\ lastEvent = "deleted"
    /\ uidString = UidA
    /\ knownUIDs[1] = UidC
    /\ projectActive[1]
    /\ projectStartTime[1] = ArmedStart[2]
    /\ projectNames[0] = "B"

\* millis() as it would read without the wrap, in a behaviour of SpecWrap:
\* the ms explored so far follow WrapClock
TrueNow == WrapClock + (MaxTimeWrap - budget)
\* a start time of a running project, without the wrap: the sessions of
\* SpecWrap start less than half a counter period before or after the wrap
TrueStart(start) == IF start >= Word \div 2 THEN start ELSE start + Word

\* C20: the counter has WordBits bits and the elapsed time is computed by
\* unsigned subtraction modulo 2^WordBits: when a running project is stopped
\* (by scanning its card or another registered card) it is credited the true
\* length of its session, also when the counter wrapped during the session
\* and millis() is numerically below projectStartTime.
WrapCredit ==
    [][(StartScan \/ PauseScan)
       => /\ clock = TrueNow % Word
          /\ \A k \in Registered :
                (projectActive[k] /\ ~projectActive'[k])
                => projectAccumulatedTime'[k] =
                     projectAccumulatedTime[k]
                       + (TrueNow - TrueStart(projectStartTime[k]))
      ]_vars

\* C20 witness: TagC, started before the wrap, was paused after it: millis()
\* is below its start time and it has been credited the 6 s and more of its
\* session.
WrapCreditWitness ==
    /\ lastEvent = "paused"
    /\ uidString = UidC
    /\ clock < projectStartTime[2]
    /\ projectStartTime[2] = WrapStart
    /\ ~projectActive[2]
    /\ projectAccumulatedTime[2] >= 2 * FreezeMs

====
